---- MODULE Spec2Model ----
(***************************************************************************)
(* The tennis analytics dashboard (project-1.py) as a state machine: one   *)
(* run of the script from the two CSV files to the last leaderboard.       *)
(*                                                                         *)
(* Text (CSV cells, names, the search box) is a sequence of one-character  *)
(* strings.  A number is an integer count of half units (3 stands for 1.5),*)
(* which is enough to tell int() from the identity.  A DataFrame is a      *)
(* record [cols, rows]: cols a sequence of column labels, rows a sequence  *)
(* of rows, each a sequence of cells aligned with cols.                    *)
(***************************************************************************)
EXTENDS Integers, Sequences, FiniteSets, TLC

VARIABLES
    compFile, rankFile,                 \* Competitors.csv, Competitor_Rankings.csv
    pc, err, notices,                   \* position in the script, exception, st.error/st.warning output
    competitors_df, rankings_df, df,    \* line 62
    year_range, week_range, gender_sel, country_sel,
    rank_range, points_range, name_search,   \* lines 74-119
    filtered,                           \* lines 124-132
    kpis,                               \* lines 139-148
    results,                            \* line 160
    selected, details,                  \* lines 169-170
    country_stats,                      \* lines 185-189
    top_ranked, top_points              \* lines 201, 203

inputs  == <<compFile, rankFile>>
loaded  == <<competitors_df, rankings_df, df>>
widgets == <<year_range, week_range, gender_sel, country_sel, rank_range, points_range, name_search>>
reports == <<kpis, results, selected, details, country_stats, top_ranked, top_points>>
vars    == <<inputs, pc, err, notices, loaded, widgets, filtered, reports>>

-----------------------------------------------------------------------------
(* Sequences *)

RECURSIVE Flatten(_)
Flatten(ss) == IF ss = <<>> THEN <<>> ELSE Head(ss) \o Flatten(Tail(ss))

Range(s) == {s[i] : i \in DOMAIN s}

Min2(a, b) == IF a <= b THEN a ELSE b

SetMin(S) == CHOOSE x \in S : \A y \in S : x <= y
SetMax(S) == CHOOSE x \in S : \A y \in S : x >= y

-----------------------------------------------------------------------------
(* Cells and text *)

NaN    == [k |-> "nan", n |-> 0, s |-> <<>>]
Num(h) == [k |-> "num", n |-> h, s |-> <<>>]
Str(t) == [k |-> "str", n |-> 0, s |-> t]

IsNa(c) == c.k = "nan"

DigitVal(c) ==
    CASE c = "0" -> 0 [] c = "1" -> 1 [] c = "2" -> 2 [] c = "3" -> 3 [] c = "4" -> 4
      [] c = "5" -> 5 [] c = "6" -> 6 [] c = "7" -> 7 [] c = "8" -> 8 [] c = "9" -> 9

IsDigit(c) == c \in {"0", "1", "2", "3", "4", "5", "6", "7", "8", "9"}

AllDigits(t) == \A i \in DOMAIN t : IsDigit(t[i])

RECURSIVE DigitsVal(_)
DigitsVal(t) ==
    IF t = <<>> THEN 0 ELSE 10 * DigitsVal(SubSeq(t, 1, Len(t) - 1)) + DigitVal(t[Len(t)])

RECURSIVE Pow10(_)
Pow10(n) == IF n = 0 THEN 1 ELSE 10 * Pow10(n - 1)

\* the text without its sign
Unsigned(t) == IF t # <<>> /\ t[1] = "-" THEN Tail(t) ELSE t

DotAt(t) == {i \in DOMAIN t : t[i] = "."}

\* the text is a decimal literal: [-] digits [. digits], with a digit somewhere
IsNumeric(t) ==
    LET b == Unsigned(t)
        d == DotAt(b)
    IN  \/ d = {} /\ b # <<>> /\ AllDigits(b)
        \/ /\ Cardinality(d) = 1
           /\ LET i == CHOOSE j \in d : TRUE
              IN  /\ AllDigits(SubSeq(b, 1, i - 1))
                  /\ AllDigits(SubSeq(b, i + 1, Len(b)))
                  /\ Len(b) > 1

\* the value of a decimal literal in half units (exact for fractions .0 and .5)
NumericValue(t) ==
    LET b == Unsigned(t)
        d == DotAt(b)
        i == IF d = {} THEN Len(b) + 1 ELSE CHOOSE j \in d : TRUE
        whole == DigitsVal(SubSeq(b, 1, i - 1))
        frac == SubSeq(b, i + 1, Len(b))
        halves == 2 * whole + (2 * DigitsVal(frac)) \div Pow10(Len(frac))
    IN  IF t # <<>> /\ t[1] = "-" THEN 0 - halves ELSE halves

\* Python int() of a float: truncation toward zero; the result is a whole number
PyInt(h) == IF h >= 0 THEN h \div 2 ELSE 0 - ((0 - h) \div 2)

\* a whole number as a cell value
Whole(i) == 2 * i

-----------------------------------------------------------------------------
(* DataFrames *)

\* a column label; sfx is the suffix DataFrame.merge appends to a label both sides carry
N(name) == [base |-> name, sfx |-> ""]

EmptyDF == [cols |-> <<>>, rows |-> <<>>]

\* DataFrame.empty: some axis has length 0
IsEmpty(t) == Len(t.cols) = 0 \/ Len(t.rows) = 0

Count(t, c) == Cardinality({i \in DOMAIN t.cols : t.cols[i] = c})

\* c in t.columns
InCols(t, c) == Count(t, c) >= 1

\* t[c] is a Series: exactly one column carries the label
HasCol(t, c) == Count(t, c) = 1

ColIdx(t, c) == CHOOSE i \in DOMAIN t.cols : t.cols[i] = c

\* t[c] as the sequence of its cells
Col(t, c) == [r \in DOMAIN t.rows |-> t.rows[r][ColIdx(t, c)]]

Cell(t, row, c) == row[ColIdx(t, c)]

\* the values of a column that are present
Present(t, c) == {x \in Range(Col(t, c)) : ~IsNa(x)}

\* Series.nunique(): distinct values, missing ones not counted
NUnique(t, c) == Cardinality(Present(t, c))

\* t[mask]: the rows satisfying Keep, in their order
Where(t, Keep(_)) ==
    [cols |-> t.cols, rows |-> SelectSeq(t.rows, Keep)]

-----------------------------------------------------------------------------
(* pd.read_csv and safe_read_csv *)

Missing == [st |-> "missing", header |-> <<>>, lines |-> <<>>]   \* no such file
NoData  == [st |-> "nodata", header |-> <<>>, lines |-> <<>>]    \* a file of zero columns
Csv(header, lines) == [st |-> "ok", header |-> header, lines |-> lines]

\* texts pd.read_csv reads as a missing value (some of its default na_values)
NaValues == {<<>>, <<"N", "A">>, <<"N", "/", "A">>, <<"N", "a", "N">>}

\* pd.read_csv's type inference on one column: a column whose present texts are
\* all decimal literals is numeric, any other column keeps its texts
ColumnNumeric(texts) == \A i \in DOMAIN texts : texts[i] \in NaValues \/ IsNumeric(texts[i])

InferCell(texts, t) ==
    IF t \in NaValues THEN NaN
    ELSE IF ColumnNumeric(texts) THEN Num(NumericValue(t))
    ELSE Str(t)

read_csv(f) ==
    [cols |-> [c \in DOMAIN f.header |-> N(f.header[c])],
     rows |-> [r \in DOMAIN f.lines |->
                 [c \in DOMAIN f.header |->
                     InferCell([q \in DOMAIN f.lines |-> f.lines[q][c]], f.lines[r][c])]]]

\* safe_read_csv with the report of an absent file left out
safe_read_csv_silent(f) ==
    CASE f.st = "nodata" -> [df |-> EmptyDF, said |-> <<"File is empty">>]
      [] f.st = "missing" -> [df |-> EmptyDF, said |-> <<>>]
      [] OTHER            -> [df |-> read_csv(f), said |-> <<>>]

\* the table safe_read_csv returns and the notices it reports
safe_read_csv(f) ==
    CASE f.st = "missing" -> [df |-> EmptyDF, said |-> <<"File not found">>]
      [] f.st = "nodata"  -> [df |-> EmptyDF, said |-> <<"File is empty">>]
      [] OTHER            -> [df |-> read_csv(f), said |-> <<>>]

-----------------------------------------------------------------------------
(* load_data: rename, coercion, merge *)

CompetitorsRename ==
    [id |-> "competitor_id", competitorId |-> "competitor_id", name |-> "name",
     country_name |-> "country", country |-> "country", country_code |-> "country_code",
     abbr |-> "abbreviation"]

RankingsRename ==
    [id |-> "competitor_id", competitorId |-> "competitor_id", rank |-> "rank",
     points |-> "points", movement |-> "movement",
     competitions_played |-> "competitions_played", year |-> "year", week |-> "week",
     gender |-> "gender", type |-> "type"]

NumericColumns == {"rank", "points", "movement", "competitions_played", "year", "week"}

\* a rename whose map sends "country" back to "country_name"
RenameSwapped(t, map) ==
    [cols |-> [i \in DOMAIN t.cols |->
                 IF t.cols[i].base = "country" THEN N("country_name")
                 ELSE IF t.cols[i].base \in DOMAIN map /\ t.cols[i].sfx = ""
                 THEN N(map[t.cols[i].base]) ELSE t.cols[i]],
     rows |-> t.rows]

\* DataFrame.rename(columns=map): a label in the map is replaced, any other is kept
Rename(t, map) ==
    [cols |-> [i \in DOMAIN t.cols |->
                 IF t.cols[i].base \in DOMAIN map /\ t.cols[i].sfx = ""
                 THEN N(map[t.cols[i].base]) ELSE t.cols[i]],
     rows |-> t.rows]

\* pd.to_numeric(errors="coerce") on one value
to_numeric(c) ==
    CASE c.k = "num" -> c
      [] c.k = "nan" -> NaN
      [] OTHER       -> IF IsNumeric(c.s) THEN Num(NumericValue(c.s)) ELSE NaN

\* lines 47-49: every column of the list that the table has is coerced
ConvertNumerics(t) ==
    [cols |-> t.cols,
     rows |-> [r \in DOMAIN t.rows |->
                 [i \in DOMAIN t.cols |->
                     IF t.cols[i].sfx = "" /\ t.cols[i].base \in NumericColumns
                     THEN to_numeric(t.rows[r][i]) ELSE t.rows[r][i]]]]

NormalizeCompetitors(t) == Rename(t, CompetitorsRename)
NormalizeRankings(t) == ConvertNumerics(Rename(t, RankingsRename))

KeyCol == N("competitor_id")

\* a column holding some text has dtype object, any other column is numeric
IsObject(t, c) == \E x \in Range(Col(t, c)) : x.k = "str"

\* DataFrame.merge raises ValueError: the key label is not unique on a side, or
\* the two key columns are of different kinds (object against numeric)
MergeRaises(left, right) ==
    \/ ~HasCol(left, KeyCol)
    \/ ~HasCol(right, KeyCol)
    \/ IsObject(left, KeyCol) # IsObject(right, KeyCol)

\* key equality of merge: missing keys match each other
KeyEq(a, b) == a = b

\* the merge as an inner join: a ranking row with no competitor is dropped
MergeInner(left, right) ==
    LET lk == ColIdx(left, KeyCol)
        rk == ColIdx(right, KeyCol)
        others == SelectSeq([i \in DOMAIN right.cols |-> i], LAMBDA i : i # rk)
        shared == (Range(left.cols) \cap Range(right.cols)) \ {KeyCol}
        Sfx(c, x) == IF c \in shared THEN [base |-> c.base, sfx |-> x] ELSE c
        Join(lrow, rrow) == lrow \o [j \in DOMAIN others |-> rrow[others[j]]]
        Matches(lrow) == SelectSeq(right.rows, LAMBDA rrow : KeyEq(lrow[lk], rrow[rk]))
        Fan(lrow) == [j \in DOMAIN Matches(lrow) |-> Join(lrow, Matches(lrow)[j])]
    IN  [cols |-> [i \in DOMAIN left.cols |-> Sfx(left.cols[i], "_x")]
                  \o [j \in DOMAIN others |-> Sfx(right.cols[others[j]], "_y")],
         rows |-> Flatten([r \in DOMAIN left.rows |-> Fan(left.rows[r])])]

\* rankings.merge(competitors, on="competitor_id", how="left")
Merge(left, right) ==
    LET lk == ColIdx(left, KeyCol)
        rk == ColIdx(right, KeyCol)
        others == SelectSeq([i \in DOMAIN right.cols |-> i], LAMBDA i : i # rk)
        shared == (Range(left.cols) \cap Range(right.cols)) \ {KeyCol}
        Sfx(c, x) == IF c \in shared THEN [base |-> c.base, sfx |-> x] ELSE c
        Pad(lrow) == lrow \o [j \in DOMAIN others |-> NaN]
        Join(lrow, rrow) == lrow \o [j \in DOMAIN others |-> rrow[others[j]]]
        Matches(lrow) == SelectSeq(right.rows, LAMBDA rrow : KeyEq(lrow[lk], rrow[rk]))
        Fan(lrow) ==
            IF Matches(lrow) = <<>> THEN <<Pad(lrow)>>
            ELSE [j \in DOMAIN Matches(lrow) |-> Join(lrow, Matches(lrow)[j])]
    IN  [cols |-> [i \in DOMAIN left.cols |-> Sfx(left.cols[i], "_x")]
                  \o [j \in DOMAIN others |-> Sfx(right.cols[others[j]], "_y")],
         rows |-> Flatten([r \in DOMAIN left.rows |-> Fan(left.rows[r])])]

\* lines 51-55
MergeOrCopy(competitors, rankings) ==
    IF InCols(competitors, KeyCol) /\ InCols(rankings, KeyCol)
    THEN Merge(rankings, competitors)
    ELSE rankings

-----------------------------------------------------------------------------
(* The two CSV files a run may find *)

\* rows of a leaderboard (head(10), lines 201 and 203)
TopN == 10

MaxRankRows == 2     \* rows of a generated Competitor_Rankings.csv

\* the field of an entry that a CSV column of this name carries
FieldOf(h) ==
    CASE h \in {"id", "competitorId", "competitor_id"} -> "id"
      [] h = "country_name" -> "country"
      [] OTHER -> h

Line(header, entry) == [i \in DOMAIN header |-> entry[FieldOf(header[i])]]

Lines(header, entries) == [r \in DOMAIN entries |-> Line(header, entries[r])]

SeqsUpTo(S, n) == UNION {[1..k -> S] : k \in 0..n}

Y2023 == <<"2", "0", "2", "3">>
Y2024 == <<"2", "0", "2", "4">>

\* ranking entries: two plain ones, one with no field but fractional points,
\* one with unparseable points
RankA ==
    [id |-> <<"1">>, rank |-> <<"1">>, points |-> <<"2">>, movement |-> <<"0">>,
     competitions_played |-> <<"3">>, year |-> Y2023, week |-> <<"1">>,
     gender |-> <<"M">>, type |-> <<"s">>, name |-> <<"A", "n", "a">>,
     country |-> <<"U", "S">>]
RankB ==
    [id |-> <<"2">>, rank |-> <<"2">>, points |-> <<"3">>, movement |-> <<"-", "1">>,
     competitions_played |-> <<"3">>, year |-> Y2024, week |-> <<"2">>,
     gender |-> <<"F">>, type |-> <<"s">>, name |-> <<"B", "o">>,
     country |-> <<"F", "R">>]
RankC ==
    [id |-> <<>>, rank |-> <<>>, points |-> <<"3", ".", "5">>, movement |-> <<>>,
     competitions_played |-> <<>>, year |-> <<>>, week |-> <<>>,
     gender |-> <<>>, type |-> <<>>, name |-> <<>>, country |-> <<>>]
RankD ==
    [id |-> <<"1">>, rank |-> <<"2">>, points |-> <<"x">>, movement |-> <<"1">>,
     competitions_played |-> <<"3">>, year |-> Y2023, week |-> <<"1">>,
     gender |-> <<"M">>, type |-> <<"d">>, name |-> <<"A", "n", "a">>,
     country |-> <<"U", "S">>]
RankT == [RankA EXCEPT !.id = <<"p", "1">>]

RankPool == {RankA, RankB, RankC, RankD}

RankHeader ==
    <<"id", "rank", "points", "movement", "competitions_played", "year", "week", "gender">>
RankHeaderCamel ==
    <<"competitorId", "rank", "points", "movement", "competitions_played", "year",
      "week", "gender", "type">>
RankHeaderNoId == Tail(RankHeader)
RankHeaderTwoIds == <<"competitorId">> \o RankHeader
RankHeaderFlat == RankHeader \o <<"name", "country">>
RankHeaderShort == <<"id", "rank", "points", "year", "week", "gender">>

\* competitor entries: two plain ones, one sharing the identifier of the first,
\* one with no identifier and no country
CompA ==
    [id |-> <<"1">>, name |-> <<"A", "n", "a">>, country |-> <<"U", "S">>,
     country_code |-> <<"U", "S", "A">>, abbr |-> <<"A", "N">>]
CompB ==
    [id |-> <<"2">>, name |-> <<"B", "o">>, country |-> <<"F", "R">>,
     country_code |-> <<"F", "R", "A">>, abbr |-> <<"B", "O">>]
CompA2 ==
    [id |-> <<"1">>, name |-> <<"a", "n", "a">>, country |-> <<"U", "S">>,
     country_code |-> <<"U", "S", "A">>, abbr |-> <<"A", "N">>]
CompN ==
    [id |-> <<>>, name |-> <<"A", ".">>, country |-> <<>>,
     country_code |-> <<>>, abbr |-> <<>>]

CompHeader == <<"id", "name", "country_name">>
CompHeaderCamel == <<"competitorId", "name", "country", "country_code", "abbr">>
CompHeaderNoId == <<"name", "country_name">>
CompHeaderTwoIds == <<"id", "competitorId", "name", "country">>
CompHeaderTwoCountries == <<"id", "name", "country_name", "country">>

CompTables == {<<CompA, CompB>>, <<CompA, CompA2>>, <<CompN, CompB>>, <<>>}

\* a ranking file longer than a leaderboard: the two plain entries in turn
LongEntries == [i \in 1..(TopN + 2) |-> IF i % 2 = 1 THEN RankA ELSE RankB]

\* a ranking file with an entry that has neither year nor gender
Undated == <<RankA, [RankB EXCEPT !.year = <<>>, !.gender = <<>>]>>

\* a ranking file in which no entry has a rank
Unranked == <<[RankA EXCEPT !.rank = <<>>], [RankB EXCEPT !.rank = <<>>]>>

\* the generated files: every ranking table over the pool against each competitor table
GeneratedFiles ==
    {<<Csv(CompHeader, Lines(CompHeader, c)), Csv(RankHeader, Lines(RankHeader, r))>> :
        c \in CompTables, r \in SeqsUpTo(RankPool, MaxRankRows)}

\* files that are absent or hold nothing
FailedFiles ==
    LET okC == Csv(CompHeader, Lines(CompHeader, <<CompA, CompB>>))
        okR == Csv(RankHeader, Lines(RankHeader, <<RankA, RankB>>))
    IN  {<<c, r>> : c \in {Missing, NoData, okC}, r \in {Missing, NoData, okR}}

\* files under other column names
OtherFiles ==
    LET AB == <<RankA, RankB>>
        CC == <<CompA, CompB>>
        C(h) == Csv(h, Lines(h, CC))
        R(h) == Csv(h, Lines(h, AB))
    IN  {<<C(CompHeaderCamel), R(RankHeaderCamel)>>,
         <<C(CompHeader), R(RankHeaderNoId)>>,
         <<C(CompHeaderNoId), R(RankHeader)>>,
         <<C(CompHeaderNoId), R(RankHeaderFlat)>>,
         <<C(CompHeader), R(RankHeaderFlat)>>,
         <<C(CompHeaderTwoIds), R(RankHeader)>>,
         <<C(CompHeader), R(RankHeaderTwoIds)>>,
         <<C(CompHeaderNoId), R(RankHeaderTwoIds)>>,
         <<C(CompHeaderTwoCountries), R(RankHeader)>>,
         <<C(CompHeader), R(RankHeaderShort)>>,
         <<C(CompHeader), Csv(RankHeader, Lines(RankHeader, <<RankT, RankB>>))>>,
         <<C(CompHeader), Csv(RankHeader, Lines(RankHeader, Unranked))>>,
         <<C(CompHeader), Csv(RankHeader, Lines(RankHeader, Undated))>>,
         <<C(CompHeader), Csv(RankHeader, Lines(RankHeader, LongEntries))>>}

Files == GeneratedFiles \cup FailedFiles \cup OtherFiles

-----------------------------------------------------------------------------
(* The run *)

NoErr == [at |-> "", what |-> ""]
NoKpis == [competitors |-> 0, countries |-> 0, max_points |-> 0,
           f_competitors |-> 0, f_countries |-> 0, f_max_points |-> 0]

Init ==
    /\ \E f \in Files : compFile = f[1] /\ rankFile = f[2]
    /\ pc = "load"
    /\ err = NoErr
    /\ notices = <<>>
    /\ competitors_df = EmptyDF /\ rankings_df = EmptyDF /\ df = EmptyDF
    /\ year_range = <<>> /\ week_range = <<>> /\ rank_range = <<>> /\ points_range = <<>>
    /\ gender_sel = {} /\ country_sel = {} /\ name_search = <<>>
    /\ filtered = EmptyDF
    /\ kpis = NoKpis
    /\ results = EmptyDF
    /\ selected = NaN /\ details = <<>>
    /\ country_stats = <<>>
    /\ top_ranked = EmptyDF /\ top_points = EmptyDF

\* an exception ends the run where it is raised
Raise(at, what) == pc' = "error" /\ err' = [at |-> at, what |-> what]

\* lines 24-57 and 62: load_data and the assignment of its three results
LoadData ==
    /\ pc = "load"
    /\ LET c == safe_read_csv(compFile)
           r == safe_read_csv(rankFile)
           competitors == NormalizeCompetitors(c.df)
           rankings == NormalizeRankings(r.df)
       IN  /\ notices' = notices \o c.said \o r.said
           /\ IF IsEmpty(c.df) \/ IsEmpty(r.df)
              THEN /\ competitors_df' = EmptyDF /\ rankings_df' = EmptyDF /\ df' = EmptyDF
                   /\ pc' = "check" /\ err' = err
              ELSE IF InCols(competitors, KeyCol) /\ InCols(rankings, KeyCol)
                      /\ MergeRaises(rankings, competitors)
              THEN /\ Raise("load_data", "ValueError")
                   /\ UNCHANGED loaded
              ELSE /\ competitors_df' = competitors
                   /\ rankings_df' = rankings
                   /\ df' = MergeOrCopy(competitors, rankings)
                   /\ pc' = "check" /\ err' = err
    /\ UNCHANGED <<inputs, widgets, filtered, reports>>

\* lines 64-67: no data, one notice, st.stop()
NoDataStop ==
    /\ pc = "check"
    /\ IsEmpty(df)
    /\ notices' = Append(notices, "No data found")
    /\ pc' = "stopped"
    /\ UNCHANGED <<inputs, err, loaded, widgets, filtered, reports>>

-----------------------------------------------------------------------------
(* Sidebar filters, lines 74-119 *)

MaxAdjusted == 1     \* widgets the user moves away from their default in one run

\* the texts tried in the name search box
SearchTexts == {<<>>, <<"a", "n">>, <<".">>, <<"(">>}

NumericWidgets == {N("year"), N("week"), N("rank"), N("points")}

\* "c" in df.columns and df[c].notna().any()
AnyPresent(t, c) == InCols(t, c) /\ Present(t, c) # {}

ColMin(t, c) == SetMin({x.n : x \in Present(t, c)})
ColMax(t, c) == SetMax({x.n : x \in Present(t, c)})

\* int(df[c].min()), int(df[c].max())
IntMin(t, c) == PyInt(ColMin(t, c))
IntMax(t, c) == PyInt(ColMax(t, c))

\* the pairs a range slider over lo..hi can return
SliderValues(lo, hi) == {<<a, b>> : a \in lo..hi, b \in lo..hi} \cap {p \in (lo..hi) \X (lo..hi) : p[1] <= p[2]}

\* year and week: no slider when the column holds a single value
FixedOrSlider(t, c) ==
    IF ~AnyPresent(t, c) THEN {<<>>}
    ELSE IF IntMin(t, c) = IntMax(t, c) THEN {<<IntMin(t, c), IntMax(t, c)>>}
    ELSE SliderValues(IntMin(t, c), IntMax(t, c))

\* rank and points: always a slider
Slider(t, c) ==
    IF ~AnyPresent(t, c) THEN {<<>>} ELSE SliderValues(IntMin(t, c), IntMax(t, c))

FullRange(t, c) == IF ~AnyPresent(t, c) THEN <<>> ELSE <<IntMin(t, c), IntMax(t, c)>>

\* line 107: the rank slider starts at (min, min(min + 20, max))
DefaultRank(t) ==
    IF ~AnyPresent(t, N("rank")) THEN <<>>
    ELSE <<IntMin(t, N("rank")), Min2(IntMin(t, N("rank")) + 20, IntMax(t, N("rank")))>>

\* sorted(df[c].dropna().unique()) if c in df.columns else []: the options of a multiselect
Options(t, c) == IF InCols(t, c) THEN Present(t, c) ELSE {}

\* a label the sidebar reads as one Series is carried by several columns
SidebarRaises(t) ==
    \E c \in NumericWidgets \cup {N("gender"), N("country")} : Count(t, c) > 1

Bit(b) == IF b THEN 1 ELSE 0

SidebarFilters ==
    /\ pc = "check"
    /\ ~IsEmpty(df)
    /\ IF SidebarRaises(df)
       THEN /\ Raise("sidebar", "AttributeError")
            /\ UNCHANGED widgets
       ELSE /\ year_range' \in FixedOrSlider(df, N("year"))
            /\ week_range' \in FixedOrSlider(df, N("week"))
            /\ gender_sel' \in SUBSET Options(df, N("gender"))
            /\ country_sel' \in SUBSET Options(df, N("country"))
            /\ rank_range' \in Slider(df, N("rank"))
            /\ points_range' \in Slider(df, N("points"))
            /\ name_search' \in SearchTexts
            /\ Bit(year_range' # FullRange(df, N("year")))
                 + Bit(week_range' # FullRange(df, N("week")))
                 + Bit(gender_sel' # Options(df, N("gender")))
                 + Bit(country_sel' # {})
                 + Bit(rank_range' # DefaultRank(df))
                 + Bit(points_range' # FullRange(df, N("points")))
                 + Bit(name_search' # <<>>) <= MaxAdjusted
            /\ pc' = "apply" /\ err' = err
    /\ UNCHANGED <<inputs, notices, loaded, filtered, reports>>

-----------------------------------------------------------------------------
(* Apply filters, lines 124-132 *)

UpperCase == <<"A", "B", "C", "D", "E", "F", "G", "H", "I", "J", "K", "L", "M",
               "N", "O", "P", "Q", "R", "S", "T", "U", "V", "W", "X", "Y", "Z">>
LowerCase == <<"a", "b", "c", "d", "e", "f", "g", "h", "i", "j", "k", "l", "m",
               "n", "o", "p", "q", "r", "s", "t", "u", "v", "w", "x", "y", "z">>

Lower(c) ==
    IF \E i \in DOMAIN UpperCase : UpperCase[i] = c
    THEN LowerCase[CHOOSE i \in DOMAIN UpperCase : UpperCase[i] = c]
    ELSE c

\* the pattern compiles: of the regular-expression syntax, the characters
\* modelled are the letters, "." (any character) and "(" (an unclosed group)
Compiles(pat) == \A i \in DOMAIN pat : pat[i] # "("

\* re.search(pat, text, re.IGNORECASE) finds a match
Search(pat, text) ==
    \E off \in 0..(Len(text) - Len(pat)) :
        \A j \in DOMAIN pat : pat[j] = "." \/ Lower(pat[j]) = Lower(text[off + j])

\* Series.str.contains(pat, case=False, na=False) on one value
Contains(c, pat) == c.k = "str" /\ Search(pat, c.s)

\* the range test with the upper bound left out of the range
BetweenHalfOpen(c, range) == c.k = "num" /\ c.n >= Whole(range[1]) /\ c.n < Whole(range[2])

\* (t[c] >= range[0]) & (t[c] <= range[1]) on one value; a missing value compares False
Between(c, range) == c.k = "num" /\ c.n >= Whole(range[1]) /\ c.n <= Whole(range[2])

ByRange(t, c, range) ==
    IF range # <<>> THEN Where(t, LAMBDA row : Between(Cell(t, row, c), range)) ELSE t

\* t[t[c].isin(sel)] when the selection is not empty
BySelection(t, c, sel) ==
    IF sel # {} THEN Where(t, LAMBDA row : Cell(t, row, c) \in sel) ELSE t

ByName(t, pat) ==
    IF pat # <<>> THEN Where(t, LAMBDA row : Contains(Cell(t, row, N("name")), pat)) ELSE t

\* lines 124-131
FilteredBeforeName ==
    ByRange(
        ByRange(
            BySelection(
                BySelection(
                    ByRange(ByRange(df, N("year"), year_range), N("week"), week_range),
                    N("gender"), gender_sel),
                N("country"), country_sel),
            N("rank"), rank_range),
        N("points"), points_range)

ApplyFilters ==
    /\ pc = "apply"
    /\ IF name_search # <<>> /\ ~InCols(df, N("name"))
       THEN Raise("apply", "KeyError") /\ UNCHANGED filtered
       ELSE IF name_search # <<>> /\ ~HasCol(df, N("name"))
       THEN Raise("apply", "AttributeError") /\ UNCHANGED filtered
       ELSE IF ~Compiles(name_search)
       THEN Raise("apply", "re.error") /\ UNCHANGED filtered
       ELSE /\ filtered' = ByName(FilteredBeforeName, name_search)
            /\ pc' = "kpis" /\ err' = err
    /\ UNCHANGED <<inputs, notices, loaded, widgets, reports>>

-----------------------------------------------------------------------------
(* Homepage KPIs, lines 139-148 *)

\* int(t["points"].max()): the largest present value, truncated
MaxPoints(t) == PyInt(ColMax(t, N("points")))

\* int() of the maximum of no values (NaN) raises ValueError
NoPoints(t) == Present(t, N("points")) = {}

HomepageKPIs ==
    /\ pc = "kpis"
    /\ IF \E c \in {N("competitor_id"), N("country"), N("points")} : ~InCols(df, c)
       THEN Raise("kpis", "KeyError") /\ UNCHANGED kpis
       ELSE IF ~HasCol(df, N("competitor_id"))
       THEN Raise("kpis", "TypeError") /\ UNCHANGED kpis
       ELSE IF NoPoints(df) \/ (~IsEmpty(filtered) /\ NoPoints(filtered))
       THEN Raise("kpis", "ValueError") /\ UNCHANGED kpis
       ELSE /\ kpis' = [competitors |-> NUnique(df, N("competitor_id")),
                        countries |-> NUnique(df, N("country")),
                        max_points |-> MaxPoints(df),
                        f_competitors |-> NUnique(filtered, N("competitor_id")),
                        f_countries |-> NUnique(filtered, N("country")),
                        f_max_points |-> IF ~IsEmpty(filtered) THEN MaxPoints(filtered) ELSE 0]
            /\ pc' = "search" /\ err' = err
    /\ UNCHANGED <<inputs, notices, loaded, widgets, filtered, results, selected, details,
                   country_stats, top_ranked, top_points>>

-----------------------------------------------------------------------------
(* Sorting and projection *)

\* the order in which an unstable sort leaves rows of equal key
TieOrders == {"kept", "reversed"}

\* DataFrame.sort_values(c, ascending): rows with a key in key order, rows of
\* equal key in the tie order, rows without a key last in their original order
SortRows(t, c, ascending, tie) ==
    LET key == Col(t, c)
        keyed == {i \in DOMAIN key : ~IsNa(key[i])}
        Before(j, i) ==
            \/ IF ascending THEN key[j].n < key[i].n ELSE key[j].n > key[i].n
            \/ key[j].n = key[i].n /\ IF tie = "kept" THEN j < i ELSE j > i
        Pos(i) == 1 + Cardinality({j \in keyed : Before(j, i)})
        first == [p \in 1..Cardinality(keyed) |-> t.rows[CHOOSE i \in keyed : Pos(i) = p]]
    IN  [cols |-> t.cols,
         rows |-> first \o SelectSeq(t.rows, LAMBDA row : IsNa(Cell(t, row, c)))]

\* head with one row too many
HeadRowsOneMore(t, n) == [cols |-> t.cols, rows |-> SubSeq(t.rows, 1, Min2(n + 1, Len(t.rows)))]

\* DataFrame.head(n)
HeadRows(t, n) == [cols |-> t.cols, rows |-> SubSeq(t.rows, 1, Min2(n, Len(t.rows)))]

\* t[labels]: the listed columns in the listed order
Project(t, labels) ==
    [cols |-> labels,
     rows |-> [r \in DOMAIN t.rows |-> [i \in DOMAIN labels |-> Cell(t, t.rows[r], labels[i])]]]

-----------------------------------------------------------------------------
(* Search results, lines 155-160 *)

ShowCols ==
    <<N("rank"), N("name"), N("country"), N("points"), N("movement"),
      N("competitions_played"), N("year"), N("week"), N("gender")>>

SearchResults ==
    /\ pc = "search"
    /\ IF IsEmpty(filtered)
       THEN /\ notices' = Append(notices, "No results match filters")
            /\ pc' = "details" /\ UNCHANGED <<err, results>>
       ELSE IF ~InCols(filtered, N("rank"))
       THEN Raise("search", "KeyError") /\ UNCHANGED <<notices, results>>
       ELSE /\ \E tie \in TieOrders :
                 results' = SortRows(
                     Project(filtered, SelectSeq(ShowCols, LAMBDA c : InCols(filtered, c))),
                     N("rank"), TRUE, tie)
            /\ pc' = "details" /\ UNCHANGED <<err, notices>>
    /\ UNCHANGED <<inputs, loaded, widgets, filtered, kpis, selected, details,
                   country_stats, top_ranked, top_points>>

-----------------------------------------------------------------------------
(* Competitor details, lines 167-176 *)

DetailCols ==
    {N("name"), N("rank"), N("points"), N("movement"), N("competitions_played"),
     N("country")}

\* filtered["name"].unique(): the distinct values, a missing one included
NameOptions(t) == Range(Col(t, N("name")))

\* sorted() compares a missing name (a float) with a text
SortedRaises(names) == NaN \in names /\ Cardinality(names) > 1

\* filtered[filtered["name"] == selected]: a missing value equals nothing
NamedRows(t, sel) ==
    Where(t, LAMBDA row : ~IsNa(sel) /\ Cell(t, row, N("name")) = sel)

CompetitorDetails ==
    /\ pc = "details"
    /\ IF IsEmpty(filtered)
       THEN pc' = "country" /\ UNCHANGED <<err, selected, details>>
       ELSE IF ~InCols(filtered, N("name"))
       THEN Raise("details", "KeyError") /\ UNCHANGED <<selected, details>>
       ELSE IF SortedRaises(NameOptions(filtered))
       THEN Raise("details", "TypeError") /\ UNCHANGED <<selected, details>>
       ELSE \E sel \in NameOptions(filtered) :
              /\ selected' = sel
              /\ IF IsEmpty(NamedRows(filtered, sel))
                 THEN Raise("details", "IndexError") /\ UNCHANGED details
                 ELSE IF \E c \in DetailCols : ~InCols(filtered, c)
                 THEN Raise("details", "KeyError") /\ UNCHANGED details
                 ELSE /\ details' = NamedRows(filtered, sel).rows[1]
                      /\ pc' = "country" /\ err' = err
    /\ UNCHANGED <<inputs, notices, loaded, widgets, filtered, kpis, results,
                   country_stats, top_ranked, top_points>>

-----------------------------------------------------------------------------
(* Country analysis, lines 183-190 *)

CodePoint(c) ==
    IF \E i \in DOMAIN UpperCase : UpperCase[i] = c
    THEN 64 + (CHOOSE i \in DOMAIN UpperCase : UpperCase[i] = c)
    ELSE IF \E i \in DOMAIN LowerCase : LowerCase[i] = c
    THEN 96 + (CHOOSE i \in DOMAIN LowerCase : LowerCase[i] = c)
    ELSE IF IsDigit(c) THEN 48 + DigitVal(c)
    ELSE 46

\* a < b for two texts, as Python compares strings
TextLess(a, b) ==
    \E i \in 1..(Len(a) + 1) :
        /\ i <= Len(b)
        /\ \A j \in 1..(i - 1) : a[j] = b[j]
        /\ i = Len(a) + 1 \/ CodePoint(a[i]) < CodePoint(b[i])

\* the mean of the present points of a group as sum / n, n = 0 when none is present
MeanPoints(t) ==
    LET idx == {i \in DOMAIN t.rows : ~IsNa(Cell(t, t.rows[i], N("points")))}
        Sum[S \in SUBSET idx] ==
            IF S = {} THEN 0
            ELSE LET i == CHOOSE x \in S : TRUE
                 IN  Cell(t, t.rows[i], N("points")).n + Sum[S \ {i}]
    IN  [sum |-> Sum[idx], n |-> Cardinality(idx)]

\* groupby("country").agg(...).reset_index(): one row per present country, in key order
Grouped(t) ==
    LET keys == Present(t, N("country"))
        Pos(k) == 1 + Cardinality({q \in keys : TextLess(q.s, k.s)})
        Group(k) == Where(t, LAMBDA row : Cell(t, row, N("country")) = k)
    IN  [p \in 1..Cardinality(keys) |->
            LET k == CHOOSE q \in keys : Pos(q) = p
            IN  [country |-> k,
                 total_competitors |-> NUnique(Group(k), N("competitor_id")),
                 avg_points |-> MeanPoints(Group(k))]]

\* sort_values("total_competitors", ascending=False)
SortStats(g, tie) ==
    LET Before(j, i) ==
            \/ g[j].total_competitors > g[i].total_competitors
            \/ /\ g[j].total_competitors = g[i].total_competitors
               /\ IF tie = "kept" THEN j < i ELSE j > i
        Pos(i) == 1 + Cardinality({j \in DOMAIN g : Before(j, i)})
    IN  [p \in DOMAIN g |-> g[CHOOSE i \in DOMAIN g : Pos(i) = p]]

CountryAnalysis ==
    /\ pc = "country"
    /\ IF IsEmpty(filtered)
       THEN pc' = "leaderboards" /\ UNCHANGED <<err, country_stats>>
       ELSE IF \E c \in {N("country"), N("competitor_id"), N("points")} : ~InCols(filtered, c)
       THEN Raise("country", "KeyError") /\ UNCHANGED country_stats
       ELSE /\ \E tie \in TieOrders : country_stats' = SortStats(Grouped(filtered), tie)
            /\ pc' = "leaderboards" /\ err' = err
    /\ UNCHANGED <<inputs, notices, loaded, widgets, filtered, kpis, results, selected,
                   details, top_ranked, top_points>>

-----------------------------------------------------------------------------
(* Leaderboards, lines 197-203 *)

BoardCols == <<N("rank"), N("name"), N("country"), N("points")>>

TopRanked(t, tie) == Project(HeadRows(SortRows(t, N("rank"), TRUE, tie), TopN), BoardCols)

HighestPoints(t, tie) ==
    Project(HeadRows(SortRows(t, N("points"), FALSE, tie), TopN), BoardCols)

Leaderboards ==
    /\ pc = "leaderboards"
    /\ IF IsEmpty(filtered)
       THEN pc' = "done" /\ UNCHANGED <<err, top_ranked, top_points>>
       ELSE IF \E c \in Range(BoardCols) : ~InCols(filtered, c)
       THEN Raise("leaderboards", "KeyError") /\ UNCHANGED <<top_ranked, top_points>>
       ELSE /\ \E tie \in TieOrders : top_ranked' = TopRanked(filtered, tie)
            /\ \E tie \in TieOrders : top_points' = HighestPoints(filtered, tie)
            /\ pc' = "done" /\ err' = err
    /\ UNCHANGED <<inputs, notices, loaded, widgets, filtered, kpis, results, selected,
                   details, country_stats>>

Next ==
    \/ LoadData
    \/ NoDataStop
    \/ SidebarFilters
    \/ ApplyFilters
    \/ HomepageKPIs
    \/ SearchResults
    \/ CompetitorDetails
    \/ CountryAnalysis
    \/ Leaderboards

Spec == Init /\ [][Next]_vars

-----------------------------------------------------------------------------
(* Positions of the run *)

\* load_data has returned
Loaded == pc # "load" /\ err.at # "load_data"

ReportStages == {"kpis", "search", "details", "country", "leaderboards"}

\* the filters have been applied
Applied == pc \in ReportStages \cup {"done"} \/ (pc = "error" /\ err.at \in ReportStages)

\* load_data joined the two tables
Joined ==
    /\ Loaded
    /\ InCols(competitors_df, KeyCol)
    /\ InCols(rankings_df, KeyCol)

-----------------------------------------------------------------------------
(* C1 *)

\* no two competitor rows carry the same identifier, two missing ones included
UniqueIds(t) ==
    \A i, j \in DOMAIN t.rows :
        Cell(t, t.rows[i], KeyCol) = Cell(t, t.rows[j], KeyCol) => i = j

\* C1 as stated: whenever both tables carry the identifier column, the merged
\* table has exactly as many rows as the ranking table, whatever the competitor
\* table holds.
C1_AsStated == Joined => Len(df.rows) = Len(rankings_df.rows)

\* C1 amended: whenever both tables carry the identifier column and no two
\* competitor rows carry the same identifier, the merged table has exactly as
\* many rows as the ranking table, and row by row it starts with the ranking row.
C1_RowCount ==
    (Joined /\ UniqueIds(competitors_df)) =>
        /\ Len(df.rows) = Len(rankings_df.rows)
        /\ \A r \in DOMAIN df.rows :
              SubSeq(df.rows[r], 1, Len(rankings_df.cols)) = rankings_df.rows[r]

\* a join of two ranking rows, one of them without a competitor
C1_Witness ==
    /\ pc = "check"
    /\ Joined /\ UniqueIds(competitors_df)
    /\ Len(rankings_df.rows) = 2
    /\ Len(competitors_df.rows) = 2
    /\ \E r \in DOMAIN rankings_df.rows : \A c \in DOMAIN competitors_df.rows :
          Cell(rankings_df, rankings_df.rows[r], KeyCol)
              # Cell(competitors_df, competitors_df.rows[c], KeyCol)

-----------------------------------------------------------------------------
(* C2 *)

\* a range at its no-restriction value: None, or covering every present value
Unrestricting(range, c) ==
    \/ range = <<>>
    \/ /\ Whole(range[1]) <= ColMin(df, c)
       /\ Whole(range[2]) >= ColMax(df, c)

AllUnrestricting ==
    /\ Unrestricting(year_range, N("year"))
    /\ Unrestricting(week_range, N("week"))
    /\ Unrestricting(rank_range, N("rank"))
    /\ Unrestricting(points_range, N("points"))
    /\ gender_sel = {} \/ gender_sel = Options(df, N("gender"))
    /\ country_sel = {}
    /\ name_search = <<>>

\* the row has a value wherever a range or the gender selection looks for one
Complete(row) ==
    /\ year_range # <<>> => ~IsNa(Cell(df, row, N("year")))
    /\ week_range # <<>> => ~IsNa(Cell(df, row, N("week")))
    /\ rank_range # <<>> => ~IsNa(Cell(df, row, N("rank")))
    /\ points_range # <<>> => ~IsNa(Cell(df, row, N("points")))
    /\ gender_sel # {} => ~IsNa(Cell(df, row, N("gender")))

\* C2 as stated: with every predicate at its no-restriction value the filtered
\* table equals the merged table row for row, rows with a missing year, week,
\* rank, points or gender included.
C2_AsStated == (Applied /\ AllUnrestricting) => filtered = df

\* C2 amended: with every predicate at its no-restriction value the filtered
\* table holds, in order, exactly the merged rows that have a value in every
\* column whose range is not None and a gender when the gender selection is not
\* empty; it equals the merged table when no row lacks such a value.
C2_Unrestricted ==
    (Applied /\ AllUnrestricting) =>
        /\ filtered.cols = df.cols
        /\ filtered.rows = SelectSeq(df.rows, Complete)
        /\ (\A r \in DOMAIN df.rows : Complete(df.rows[r])) => filtered = df

\* full ranges over a table with a row that has no year: the row is dropped, the others kept
C2_Witness ==
    /\ pc = "kpis"
    /\ AllUnrestricting
    /\ year_range # <<>> /\ points_range # <<>> /\ gender_sel # {}
    /\ \E r \in DOMAIN df.rows : IsNa(Cell(df, df.rows[r], N("year")))
    /\ Len(filtered.rows) >= 1
    /\ Len(filtered.rows) < Len(df.rows)

-----------------------------------------------------------------------------
(* C3 *)

\* the KPI lines have run: they set the KPIs or raised
KpisRan ==
    \/ pc \in {"search", "details", "country", "leaderboards", "done"}
    \/ pc = "error" /\ err.at \in {"kpis", "search", "details", "country", "leaderboards"}

KpiCols == {N("competitor_id"), N("country"), N("points")}

\* C3 as stated: on a non-empty merged table that carries the KPI columns,
\* computing the global and the filtered KPIs never raises; a maximum over no
\* values is reported as 0, and an empty filtered table gives 0, 0, 0.
C3_AsStated ==
    (KpisRan /\ \A c \in KpiCols : HasCol(df, c)) =>
        /\ err.at # "kpis"
        /\ NoPoints(df) => kpis.max_points = 0
        /\ NoPoints(filtered) => kpis.f_max_points = 0
        /\ IsEmpty(filtered) =>
              kpis.f_competitors = 0 /\ kpis.f_countries = 0 /\ kpis.f_max_points = 0

-----------------------------------------------------------------------------
(* C4 *)

\* load_data returned the ranking table in place of a join
FellBack ==
    /\ Loaded
    /\ ~IsEmpty(rankings_df)
    /\ ~(InCols(competitors_df, KeyCol) /\ InCols(rankings_df, KeyCol))

\* C4 as stated: when a table lacks the identifier column the merged table is
\* the ranking table alone and the run goes on through every stage without an
\* exception (here with the name search left empty).
C4_AsStated == (FellBack /\ name_search = <<>>) => (df = rankings_df /\ pc # "error")

-----------------------------------------------------------------------------
(* C5 *)

Failed(f) == f.st \in {"missing", "nodata"}

Untouched ==
    /\ year_range = <<>> /\ week_range = <<>> /\ rank_range = <<>> /\ points_range = <<>>
    /\ gender_sel = {} /\ country_sel = {} /\ name_search = <<>>
    /\ filtered = EmptyDF /\ kpis = NoKpis /\ results = EmptyDF
    /\ selected = NaN /\ details = <<>> /\ country_stats = <<>>
    /\ top_ranked = EmptyDF /\ top_points = EmptyDF

Said(what) == Cardinality({i \in DOMAIN notices : notices[i] = what})

-----------------------------------------------------------------------------
(* C6 *)

Occurrences(rows, x) == Cardinality({i \in DOMAIN rows : rows[i] = x})

\* row x sorts strictly before row y under the key at position k
StrictlyBefore(x, y, k, ascending) ==
    /\ ~IsNa(x[k])
    /\ \/ IsNa(y[k])
       \/ IF ascending THEN x[k].n < y[k].n ELSE x[k].n > y[k].n

\* board is a leaderboard of src under the key at position k of BoardCols
IsBoard(board, src, k, ascending) ==
    LET all == Project(src, BoardCols).rows
    IN  /\ board.cols = BoardCols
        /\ Len(board.rows) = Min2(TopN, Len(src.rows))
        /\ Len(board.rows) <= TopN /\ Len(board.rows) <= Len(src.rows)
        /\ \A x \in Range(board.rows) : Occurrences(board.rows, x) <= Occurrences(all, x)
        /\ \A i, j \in DOMAIN board.rows :
              i < j => ~StrictlyBefore(board.rows[j], board.rows[i], k, ascending)
        /\ \A x \in Range(all) :
              Occurrences(board.rows, x) < Occurrences(all, x) =>
                  \A y \in Range(board.rows) : ~StrictlyBefore(x, y, k, ascending)

\* C6: of a non-empty filtered table each leaderboard has min(10, |filtered|)
\* rows of the table, the top-ranked one in ascending rank and the
\* highest-points one in descending points, rows without the key after the rows
\* with it, and no row left out sorts strictly before a row kept.  The same
\* holds of the leaderboards of the merged table as load_data returns it, where
\* present and missing keys mix.
C6_Leaderboards ==
    /\ (pc = "done" /\ ~IsEmpty(filtered)) =>
          /\ IsBoard(top_ranked, filtered, 1, TRUE)
          /\ IsBoard(top_points, filtered, 4, FALSE)
    /\ (pc = "check" /\ ~IsEmpty(df) /\ \A c \in Range(BoardCols) : HasCol(df, c)) =>
          \A tie \in TieOrders :
              /\ IsBoard(TopRanked(df, tie), df, 1, TRUE)
              /\ IsBoard(HighestPoints(df, tie), df, 4, FALSE)

\* more rows than a leaderboard holds, and the two leaderboards differ
C6_Witness ==
    /\ pc = "done"
    /\ Len(filtered.rows) > TopN
    /\ Len(top_ranked.rows) = TopN /\ Len(top_points.rows) = TopN
    /\ top_ranked # top_points

-----------------------------------------------------------------------------
(* C7 *)

\* C7: renaming and coercing a normalized table again changes neither a column
\* name nor a cell, for the tables load_data returns (when it returns) and for
\* every table read from a file (before load_data runs).
C7_Idempotent ==
    /\ pc = "check" =>
          /\ NormalizeRankings(rankings_df) = rankings_df
          /\ NormalizeCompetitors(competitors_df) = competitors_df
    /\ (pc = "load" /\ rankFile.st = "ok") =>
          NormalizeRankings(NormalizeRankings(read_csv(rankFile)))
              = NormalizeRankings(read_csv(rankFile))
    /\ (pc = "load" /\ compFile.st = "ok") =>
          NormalizeCompetitors(NormalizeCompetitors(read_csv(compFile)))
              = NormalizeCompetitors(read_csv(compFile))

\* both tables were renamed and a text cell of the ranking table became missing
C7_Witness ==
    /\ pc = "check" /\ ~IsEmpty(df)
    /\ rankings_df.cols # read_csv(rankFile).cols
    /\ competitors_df.cols # read_csv(compFile).cols
    /\ InCols(competitors_df, N("country"))
    /\ \E r \in DOMAIN rankings_df.rows : \E i \in DOMAIN rankings_df.cols :
          read_csv(rankFile).rows[r][i].k = "str" /\ IsNa(rankings_df.rows[r][i])
    /\ \E r \in DOMAIN rankings_df.rows : \E i \in DOMAIN rankings_df.cols :
          read_csv(rankFile).rows[r][i].k = "str" /\ rankings_df.rows[r][i].k = "num"

-----------------------------------------------------------------------------
(* C8 *)

\* the detail lines have run: they set the details or raised
DetailsRan ==
    \/ pc \in {"country", "leaderboards", "done"}
    \/ pc = "error" /\ err.at \in {"details", "country", "leaderboards"}

FirstNamed(t, sel) ==
    t.rows[SetMin({i \in DOMAIN t.rows : Cell(t, t.rows[i], N("name")) = sel})]

\* C8 as stated: of a non-empty filtered table that carries the detail columns,
\* rows with a missing name included, the detail step never raises, offers the
\* names of the table and returns the first row whose name is the selection.
C8_AsStated ==
    (DetailsRan /\ ~IsEmpty(filtered) /\ \A c \in DetailCols : HasCol(filtered, c)) =>
        /\ err.at # "details"
        /\ selected \in NameOptions(filtered)
        /\ details = FirstNamed(filtered, selected)

-----------------------------------------------------------------------------
(* C9 *)

\* the lines of the ranking file whose points text is neither missing nor a number
Unparseable ==
    IF rankFile.st # "ok" THEN {}
    ELSE {r \in DOMAIN rankFile.lines :
            \E i \in DOMAIN rankFile.header :
                /\ rankFile.header[i] = "points"
                /\ rankFile.lines[r][i] \notin NaValues
                /\ ~IsNumeric(rankFile.lines[r][i])}

\* every other predicate lets the row pass
PassesOthers(row) ==
    /\ year_range # <<>> => Between(Cell(df, row, N("year")), year_range)
    /\ week_range # <<>> => Between(Cell(df, row, N("week")), week_range)
    /\ rank_range # <<>> => Between(Cell(df, row, N("rank")), rank_range)
    /\ gender_sel # {} => Cell(df, row, N("gender")) \in gender_sel
    /\ country_sel # {} => Cell(df, row, N("country")) \in country_sel

\* C9 as stated: a ranking row with unparseable points has missing points after
\* normalization and stays in the merged table; no row with missing points is in
\* the filtered table when a points range is active; with no points filter (and
\* no name search) every such row that passes the other predicates is in the
\* filtered table and the report completes.
C9_AsStated ==
    (Loaded /\ Unparseable # {} /\ ~IsEmpty(df) /\ \A c \in KpiCols \cup DetailCols : HasCol(df, c)) =>
        /\ \A r \in Unparseable :
              /\ IsNa(Cell(rankings_df, rankings_df.rows[r], N("points")))
              /\ \E m \in DOMAIN df.rows :
                    SubSeq(df.rows[m], 1, Len(rankings_df.cols)) = rankings_df.rows[r]
        /\ (Applied /\ points_range # <<>>) =>
              \A m \in DOMAIN filtered.rows : ~IsNa(Cell(filtered, filtered.rows[m], N("points")))
        /\ (Applied /\ points_range = <<>> /\ name_search = <<>>) =>
              /\ \A m \in DOMAIN df.rows :
                    (IsNa(Cell(df, df.rows[m], N("points"))) /\ PassesOthers(df.rows[m]))
                        => df.rows[m] \in Range(filtered.rows)
              /\ err.at # "kpis"

-----------------------------------------------------------------------------
(* C10 *)

\* pat occurs in text, letter case aside
SubstringOf(pat, text) ==
    \E off \in 0..(Len(text) - Len(pat)) :
        \A j \in DOMAIN pat : Lower(pat[j]) = Lower(text[off + j])

\* the row satisfies every active predicate
Satisfies(row) ==
    /\ year_range # <<>> => Between(Cell(df, row, N("year")), year_range)
    /\ week_range # <<>> => Between(Cell(df, row, N("week")), week_range)
    /\ rank_range # <<>> => Between(Cell(df, row, N("rank")), rank_range)
    /\ points_range # <<>> => Between(Cell(df, row, N("points")), points_range)
    /\ gender_sel # {} => Cell(df, row, N("gender")) \in gender_sel
    /\ country_sel # {} => Cell(df, row, N("country")) \in country_sel
    /\ name_search # <<>> =>
          /\ Cell(df, row, N("name")).k = "str"
          /\ SubstringOf(name_search, Cell(df, row, N("name")).s)

\* C10 as stated: the filtered table holds, in the order of the merged table,
\* exactly the rows that satisfy every active predicate, the name predicate
\* being a case-insensitive substring test; the merged table is as load_data
\* returned it and each filtered KPI is at most the global one.
C10_AsStated ==
    Applied =>
        /\ filtered.cols = df.cols
        /\ filtered.rows = SelectSeq(df.rows, Satisfies)
        /\ df = MergeOrCopy(competitors_df, rankings_df)
        /\ (KpisRan /\ err.at # "kpis") =>
              /\ kpis.f_competitors <= kpis.competitors
              /\ kpis.f_countries <= kpis.countries
              /\ kpis.f_max_points <= kpis.max_points

====
